---- MODULE Spec2Model ----
(***************************************************************************)
(* Market-data request coordinator (MarketDataClient) of the trade-setup   *)
(* analyzer front end, with its retry policy and the useMarketData hook.   *)
(*                                                                         *)
(* The repository holds three revisions of marketDataClient.ts:            *)
(*   "A"  lib/marketData/config.ts lines 96-296                            *)
(*   "B"  lib/marketData/config.ts lines 298-673                           *)
(*   "C"  unnamed/part_004                                                 *)
(* and two revisions of hooks/useMarketData.ts:                            *)
(*   "Y"  hooks/useMarketData.ts          "V"  unnamed/part_008            *)
(* The variables `ver` and `hookVer` select the revision that runs.        *)
(*                                                                         *)
(* Time is the value of Date.now() in milliseconds.  All handlers run on   *)
(* one event loop: a handler together with the promise continuations it    *)
(* wakes is one atomic step.                                               *)
(***************************************************************************)
EXTENDS Integers, Sequences, FiniteSets, TLC

VARIABLES
    ver,            \* revision of marketDataClient.ts that runs
    hookVer,        \* revision of useMarketData.ts that runs
    lim,            \* how many calls the callers of this run make
    now,            \* Date.now()
    cache,          \* MarketDataClient.cache
    requestStates,  \* MarketDataClient.requestStates
    retryStates,    \* MarketDataClient.retryStates
    timers,         \* armed retry timeouts (setTimeout of scheduleRetry)
    calls,          \* fetch calls suspended at an await
    dispatches,     \* calls of the raw collaborator that have not settled
    diag,           \* cacheHits, cacheMisses, lastRequestDetails, lastResponseDetails
    ids,            \* numbers given out to calls, dispatches and timers
    hook,           \* state and refs of useMarketData
    lastDispatchAt, \* observer: when fetch last called the collaborator, per key
    ev              \* observer: what the last step did and handed to its callers

vars == <<ver, hookVer, lim, now, cache, requestStates, retryStates, timers,
          calls, dispatches, diag, ids, hook, lastDispatchAt, ev>>

---------------------------------------------------------------------------
(* Bounds of the model *)

MaxTime == 75000
Quantum == 2500
MaxCalls == 3
MaxTimers == 1
SessionMaxCalls == 2
SessionMaxTimers == 1
HookMaxCalls == 2
HookMaxTime == 130000
BurstMaxCalls == 4
BurstMaxTime == 12500
RetryMaxCalls == 2
RetryMaxTimers == 2
RetryMaxTime == 40000
FaultMaxCalls == 3
FaultMaxTimers == 1
FaultMaxTime == 20000
InputMaxCalls == 2
InputMaxTimers == 1
InputMaxTime == 20000
RawMaxCalls == 1
PolicyMaxCalls == 2
ExhaustMaxCalls == 5
ExhaustMaxTime == 15000
MaxAttemptNumber == 16
MaxTickerLen == 3

Tickers == { <<"A">>, <<" ", "a">> }
BlankTickers == { <<>>, <<" ">> }
Versions == {"A", "B", "C"}
HookVersions == {"Y", "V"}

---------------------------------------------------------------------------
(* marketDataPolicy.ts *)

CACHE_TTL_MS == 60000
MIN_REQUEST_INTERVAL_MS == 5000
MAX_RETRIES == 3
BASE_DELAY_MS == 10000
MAX_DELAY_MS == 60000

Min(a, b) == IF a < b THEN a ELSE b
Max(a, b) == IF a > b THEN a ELSE b

RECURSIVE Pow2(_)
Pow2(n) == IF n <= 0 THEN 1 ELSE 2 * Pow2(n - 1)

\* A backoff without the cap: the variant that shows what Math.min is needed for
calculateBackoffDelayUncapped(attemptNumber) ==
    BASE_DELAY_MS * Pow2(attemptNumber - 1)

\* calculateBackoffDelay(attemptNumber)
calculateBackoffDelay(attemptNumber) ==
    Min(BASE_DELAY_MS * Pow2(attemptNumber - 1), MAX_DELAY_MS)

IsSpace(c) == c = " "

\* An upper-casing that leaves every character as it is: the variant that
\* shows what folding the case is needed for
toUpperCaseSkipped(c) == c

\* String.prototype.toUpperCase, on one character
toUpperCase(c) ==
    CASE c = "a" -> "A"
      [] c = "b" -> "B"
      [] OTHER -> c

RECURSIVE trimStart(_)
trimStart(s) ==
    IF s # <<>> /\ IsSpace(Head(s)) THEN trimStart(Tail(s)) ELSE s

RECURSIVE trimEnd(_)
trimEnd(s) ==
    IF s # <<>> /\ IsSpace(s[Len(s)])
    THEN trimEnd(SubSeq(s, 1, Len(s) - 1)) ELSE s

trim(s) == trimEnd(trimStart(s))

normalizeTicker(ticker) ==
    LET t == trim(ticker) IN [i \in 1..Len(t) |-> toUpperCase(t[i])]

---------------------------------------------------------------------------
(* Values *)

Null == 0        \* null promise / timer handle / timestamp (ids and armed times are > 0)

MapSet(m, k, v) == [x \in (DOMAIN m) \cup {k} |-> IF x = k THEN v ELSE m[x]]
MapDelete(m, k) == [x \in (DOMAIN m) \ {k} |-> m[x]]
EmptyMap == [x \in {} |-> 0]

\* MarketDataResult | MarketDataError, as far as the coordinator and the hook
\* look at it.  `disp` identifies the raw dispatch that produced the value.
SuccessResult(d) ==
    [ok |-> TRUE, errorCode |-> "none", isRateLimited |-> FALSE,
     error |-> "none", disp |-> d]
ErrorResult(code, d) ==
    [ok |-> FALSE, errorCode |-> code, isRateLimited |-> (code = "rate_limit"),
     error |-> "raw", disp |-> d]

Outcomes == {"success", "rate_limit", "network_error"}

\* What the raw collaborator can answer for a ticker: it validates the
\* symbol itself and answers an empty one with errorCode 'invalid_ticker'
OutcomesFor(ticker) ==
    IF ticker = <<>> THEN {"invalid_ticker"} ELSE Outcomes

RawResult(outcome, d) ==
    IF outcome = "success" THEN SuccessResult(d) ELSE ErrorResult(outcome, d)

\* A type guard that takes every value for a success: the variant that shows
\* what telling error values apart is needed for
isErrorResultBlind(r) == FALSE

\* 'error' in r
isErrorResult(r) == ~r.ok

NoCallback == [kind |-> "none", ticker |-> <<>>]
EnvCallback == [kind |-> "env", ticker |-> <<>>]
HookCallback(t) == [kind |-> "hook", ticker |-> t]

UserOrigin == [kind |-> "user", cb |-> NoCallback]
TimerOrigin(cb) == [kind |-> "timer", cb |-> cb]
HookOrigin(t) == [kind |-> "hook", cb |-> HookCallback(t)]

NoEvent(op) ==
    [op |-> op, key |-> <<>>, path |-> "none", disp |-> Null, via |-> "none",
     outcome |-> "none", returns |-> {}, callbacks |-> {}, read |-> {},
     prior |-> {}]

---------------------------------------------------------------------------
(* The world: every variable, as one record that the handlers transform *)

World ==
    [ver |-> ver, hookVer |-> hookVer, now |-> now, cache |-> cache,
     requestStates |-> requestStates, retryStates |-> retryStates,
     timers |-> timers, calls |-> calls, dispatches |-> dispatches,
     diag |-> diag, ids |-> ids, hook |-> hook,
     lastDispatchAt |-> lastDispatchAt, ev |-> ev, lim |-> lim]

Becomes(w) ==
    /\ ver' = w.ver
    /\ hookVer' = w.hookVer
    /\ now' = w.now
    /\ cache' = w.cache
    /\ requestStates' = w.requestStates
    /\ retryStates' = w.retryStates
    /\ timers' = w.timers
    /\ calls' = w.calls
    /\ dispatches' = w.dispatches
    /\ diag' = w.diag
    /\ ids' = w.ids
    /\ hook' = w.hook
    /\ lastDispatchAt' = w.lastDispatchAt
    /\ ev' = w.ev
    /\ lim' = w.lim


---------------------------------------------------------------------------
(* MarketDataClient: retry bookkeeping *)

\* A clearTimeout that leaves the timeout armed: the variant that shows what
\* the cancellation is needed for
clearTimeoutIgnored(armed, timeoutId) == armed

\* clearTimeout(timeoutId)
clearTimeout(armed, timeoutId) == {t \in armed : t.id # timeoutId}

\* clearRetryState without its clearTimeout: the variant that shows what the
\* cancellation of the timer is needed for
clearRetryStateKeepingTimer(w, ticker) ==
    IF ticker \in DOMAIN w.retryStates
    THEN [w EXCEPT !.retryStates = MapDelete(@, ticker)]
    ELSE w

\* clearRetryState(ticker): clearTimeout(timeoutId), retryStates.delete
clearRetryState(w, ticker) ==
    IF ticker \in DOMAIN w.retryStates
    THEN [w EXCEPT
            !.timers = clearTimeout(@, w.retryStates[ticker].timeoutId),
            !.retryStates = MapDelete(@, ticker)]
    ELSE w

\* The error handed back once attemptCount > MAX_RETRIES.  Revision A only
\* rewrites the message ("Rate limit reached. Please wait a few minutes...");
\* B and C say "retries exhausted" and reset isRateLimited.
exhaustedError(v, error) ==
    IF v = "A"
    THEN [error EXCEPT !.error = "limit_reached"]
    ELSE [error EXCEPT !.error = "exhausted", !.isRateLimited = FALSE]

\* An increment that counts a rate-limit result twice: the variant that shows
\* what the single increment is needed for
incrementAttemptCountTwice(retryState) == retryState.attemptCount + 2

\* retryState.attemptCount += 1
incrementAttemptCount(retryState) == retryState.attemptCount + 1

\* A test of the attempt count that never finds the retries used up: the
\* variant that shows what the test against MAX_RETRIES is needed for
maxRetriesNeverExceeded(attemptCount) == FALSE

\* retryState.attemptCount > MAX_RETRIES
maxRetriesExceeded(attemptCount) == attemptCount > MAX_RETRIES

\* handleRateLimit(ticker, error): the world afterwards and the error returned
handleRateLimit(w, ticker, error) ==
    LET old == IF ticker \in DOMAIN w.retryStates
               THEN w.retryStates[ticker]
               ELSE [attemptCount |-> 0, nextRetryTime |-> Null, timeoutId |-> Null]
        attemptCount == incrementAttemptCount(old)
    IN  IF maxRetriesExceeded(attemptCount)
        THEN [w |-> clearRetryState(w, ticker),
              result |-> exhaustedError(w.ver, error)]
        ELSE [w |-> [w EXCEPT !.retryStates = MapSet(@, ticker,
                        [old EXCEPT !.attemptCount = attemptCount,
                                    !.nextRetryTime =
                                        w.now + calculateBackoffDelay(attemptCount)])],
              result |-> error]

\* The key scheduleRetry looks up: revisions A and B normalize the ticker,
\* revision C uses it as given.
scheduleRetryKey(v, ticker) ==
    IF v = "C" THEN ticker ELSE normalizeTicker(ticker)

\* A return of scheduleRetry that leaves an empty RetryState behind: the
\* variant that shows what returning untouched is needed for
nothingScheduledLeavingState(w, key) ==
    [w EXCEPT !.retryStates = MapSet(@, key,
        [attemptCount |-> 0, nextRetryTime |-> Null, timeoutId |-> Null])]

\* The early `return` of scheduleRetry
nothingScheduled(w, key) == w

\* scheduleRetry(ticker, callback)
scheduleRetry(w, ticker, callback) ==
    LET key == scheduleRetryKey(w.ver, ticker) IN
    IF key \notin DOMAIN w.retryStates THEN nothingScheduled(w, key)
    ELSE LET retryState == w.retryStates[key] IN
         IF retryState.nextRetryTime = Null THEN nothingScheduled(w, key)
         ELSE IF w.ver = "B" /\ retryState.attemptCount > MAX_RETRIES
         THEN nothingScheduled(w, key)
         ELSE LET delay == Max(0, retryState.nextRetryTime - w.now)
                  id == w.ids.timer + 1
              IN  [w EXCEPT
                     !.ids.timer = id,
                     !.timers = clearTimeout(@, retryState.timeoutId)
                                \cup {[id |-> id, ticker |-> key,
                                       due |-> w.now + delay, cb |-> callback]},
                     !.retryStates[key].timeoutId = id]

\* getRetryState(ticker): {} for null
getRetryState(w, ticker) ==
    LET key == normalizeTicker(ticker) IN
    IF key \in DOMAIN w.retryStates
    THEN {[attemptCount |-> w.retryStates[key].attemptCount,
           nextRetryTime |-> w.retryStates[key].nextRetryTime]}
    ELSE {}


---------------------------------------------------------------------------
(* useMarketData hook *)

MAX_TOTAL_RETRY_DURATION_MS == 120000

\* Math.ceil(ms / 1000)
CeilSeconds(ms) == -((-ms) \div 1000)

IdleState ==
    [status |-> "idle", data |-> {}, error |-> {},
     cooldownSecondsRemaining |-> {}, currentTickerRef |-> <<>>,
     retryStartTimeRef |-> {}, cooldownIntervalRef |-> {}]

EnterTickerError ==
    [ok |-> FALSE, errorCode |-> "invalid_ticker", isRateLimited |-> FALSE,
     error |-> "enter_ticker", disp |-> Null]
CeilingError ==
    [ok |-> FALSE, errorCode |-> "rate_limit", isRateLimited |-> FALSE,
     error |-> "exhausted", disp |-> Null]

\* A setState that merges into the previous state and keeps its data: the
\* variant that shows what replacing the whole state is needed for
setStateKeepingData(w, status, data, error, seconds) ==
    [w EXCEPT !.hook.status = status, !.hook.error = error,
              !.hook.cooldownSecondsRemaining = seconds]

\* setState({status, data, error, cooldownSecondsRemaining, ...})
setState(w, status, data, error, seconds) ==
    [w EXCEPT !.hook.status = status, !.hook.data = data, !.hook.error = error,
              !.hook.cooldownSecondsRemaining = seconds]

\* updateCooldown(), the body of the cooldown interval
updateCooldown(w, nextRetryTime) ==
    LET remaining == Max(0, CeilSeconds(nextRetryTime - w.now)) IN
    IF remaining <= 0
    THEN [w EXCEPT !.hook.cooldownIntervalRef = {}]
    ELSE [w EXCEPT !.hook.cooldownSecondsRemaining = {remaining}]

\* startCooldownTimer(ticker, nextRetryTime)
startCooldownTimer(w, ticker, nextRetryTime) ==
    [updateCooldown(w, nextRetryTime) EXCEPT
        !.hook.cooldownIntervalRef =
            {[nextRetryTime |-> nextRetryTime, tickAt |-> w.now + 1000]}]

\* One run of the cooldown interval (setInterval(updateCooldown, 1000))
cooldownTick(w, i) ==
    LET w1 == updateCooldown(w, i.nextRetryTime) IN
    IF w1.hook.cooldownIntervalRef = {} THEN w1
    ELSE [w1 EXCEPT !.hook.cooldownIntervalRef = {[i EXCEPT !.tickAt = @ + 1000]}]

\* The runs of the cooldown interval that fall before the instant t
RECURSIVE runInterval(_, _)
runInterval(w, t) ==
    IF \E i \in w.hook.cooldownIntervalRef : i.tickAt < t
    THEN LET i == CHOOSE x \in w.hook.cooldownIntervalRef : TRUE
         IN  runInterval(cooldownTick([w EXCEPT !.now = i.tickAt], i), t)
    ELSE w

\* Revision V clears retryStartTimeRef when a fetch sequence ends
endSequence(w) ==
    IF w.hookVer = "V" THEN [w EXCEPT !.hook.retryStartTimeRef = {}] ELSE w

\* A ceiling that is never reached: the variant that shows what the check of
\* the total retry duration is needed for
totalDurationNeverExceeded(elapsedTime) == FALSE

\* elapsedTime > MAX_TOTAL_RETRY_DURATION_MS
totalDurationExceeded(elapsedTime) == elapsedTime > MAX_TOTAL_RETRY_DURATION_MS

\* A test of the current ticker that lets every retry outcome through: the
\* variant that shows what comparing the tickers is needed for
tickerChangeIgnored(w, ticker) == FALSE

\* currentTickerRef.current !== ticker
tickerChanged(w, ticker) == w.hook.currentTickerRef # ticker

\* The callback fetchData hands to scheduleRetry
retryCallback(w, ticker, retryResult) ==
    LET \* Date.now() - (retryStartTimeRef.current || 0): with the ref null this
        \* is the time since 1970, which is above the ceiling
        exceeded == IF w.hook.retryStartTimeRef = {} THEN TRUE
                    ELSE totalDurationExceeded(
                            w.now - (CHOOSE t \in w.hook.retryStartTimeRef : TRUE))
        newRetryState == getRetryState(w, ticker)
        hasNext == newRetryState # {} /\
                   (CHOOSE r \in newRetryState : TRUE).nextRetryTime # Null
        next == (CHOOSE r \in newRetryState : TRUE).nextRetryTime
    IN
    IF tickerChanged(w, ticker) THEN w
    ELSE IF exceeded
    THEN endSequence(setState(w, "error", {}, {CeilingError}, {}))
    ELSE IF isErrorResult(retryResult) /\ retryResult.isRateLimited
    THEN IF w.hookVer = "Y"
         THEN IF hasNext THEN startCooldownTimer(w, ticker, next) ELSE w
         ELSE IF ~hasNext
              THEN endSequence(setState(w, "error", {},
                        {[retryResult EXCEPT !.error = "exhausted"]}, {}))
              ELSE startCooldownTimer(
                        setState(w, "cooldown", {}, {retryResult},
                                 {CeilSeconds(next - w.now)}),
                        ticker, next)
    ELSE IF isErrorResult(retryResult)
    THEN endSequence(setState(w, "error", {}, {retryResult}, {}))
    ELSE endSequence(setState(w, "success", {retryResult}, {}, {}))

\* fetchData after `await marketDataClient.fetch(ticker)`
afterFetch(w, ticker, result) ==
    LET retryState == getRetryState(w, ticker)
        hasNext == retryState # {} /\
                   (CHOOSE r \in retryState : TRUE).nextRetryTime # Null
        next == (CHOOSE r \in retryState : TRUE).nextRetryTime
    IN
    IF isErrorResult(result) /\ result.isRateLimited
    THEN IF hasNext
         THEN scheduleRetry(
                startCooldownTimer(
                    setState(w, "cooldown", {}, {result},
                             {CeilSeconds(next - w.now)}),
                    ticker, next),
                ticker, HookCallback(ticker))
         ELSE w
    ELSE IF isErrorResult(result)
    THEN endSequence(setState(w, "error", {}, {result}, {}))
    ELSE endSequence(setState(w, "success", {result}, {}, {}))

---------------------------------------------------------------------------
(* Promise continuations *)

\* callback(result) of a retry timer
invokeCallback(w, cb, result) ==
    LET w1 == [w EXCEPT !.ev.callbacks = @ \cup {[cb |-> cb, result |-> result]}]
    IN  IF cb.kind = "hook" THEN retryCallback(w1, cb.ticker, result) ELSE w1

\* The caller of fetch resumes with `result`
deliver(w, call, origin, joined, result) ==
    LET w1 == [w EXCEPT !.ev.returns =
                  @ \cup {[call |-> call, origin |-> origin.kind,
                           joined |-> joined, result |-> result]}]
    IN  CASE origin.kind = "timer" -> invokeCallback(w1, origin.cb, result)
          [] origin.kind = "hook" -> afterFetch(w1, origin.cb.ticker, result)
          [] OTHER -> w1


---------------------------------------------------------------------------
(* The raw collaborator: fetchMarketData and its daily-data fallback *)

\* What one HTTP exchange can come to: how fetch() ends, the status of the
\* response and what its body holds
RawNet == {"AbortError", "TypeErrorCors", "TypeError", "Error", "NotAnError",
           "response"}
RawStatus == {200, 404, 429, 500}
YahooBodies == {"unparsable", "chartError", "noResult", "noSeries",
                "noValidPoints", "points"}
AlphaVantageBodies == {"unparsable", "ErrorMessage", "Note", "Information",
                       "noSeries", "points"}

RawTickers == Tickers \cup BlankTickers \cup { <<"A", " ", "A">> }

RawError(code, limited) ==
    [ok |-> FALSE, errorCode |-> code, isRateLimited |-> limited,
     error |-> "raw", disp |-> Null]

\* A rate-limit error that does not carry the flag: the variant that shows
\* what setting isRateLimited on that branch is needed for
rateLimitErrorUnflagged == RawError("rate_limit", FALSE)

\* { errorCode: 'rate_limit', isRateLimited: true }
rateLimitError == RawError("rate_limit", TRUE)

\* /^[A-Z]{1,5}$/.test(cleanTicker)
matchesSymbol(cleanTicker) ==
    /\ Len(cleanTicker) \in 1..5
    /\ \A i \in 1..Len(cleanTicker) : cleanTicker[i] \in {"A", "B"}

\* The exchange of the Yahoo revision, which fetchMarketData and
\* fetchDailyData share up to the reading of the series
yahooExchange(x) ==
    IF x.net = "AbortError" THEN {RawError("timeout", FALSE)}
    ELSE IF x.net # "response" THEN {RawError("network_error", FALSE)}
    ELSE IF x.status # 200
    THEN IF x.status = 404 THEN {RawError("invalid_ticker", FALSE)}
         ELSE IF x.status = 429 THEN {rateLimitError}
         ELSE {RawError("api_error", FALSE)}
    ELSE IF x.body = "unparsable" THEN {RawError("api_error", FALSE)}
    ELSE IF x.body = "chartError" THEN {RawError("invalid_ticker", FALSE)}
    ELSE IF x.body = "noResult" THEN {RawError("no_data", FALSE)}
    ELSE {}

\* fetchDailyData(ticker) of the Yahoo revision
fetchDailyData(ticker, x) ==
    IF yahooExchange(x) # {} THEN CHOOSE r \in yahooExchange(x) : TRUE
    ELSE IF x.body \in {"noSeries", "noValidPoints"} THEN RawError("no_data", FALSE)
    ELSE SuccessResult(Null)

\* fetchMarketData(ticker) of the Yahoo revision; `daily` is the exchange of
\* the fallback
fetchMarketData(ticker, x, daily) ==
    LET cleanTicker == normalizeTicker(ticker) IN
    IF ~matchesSymbol(cleanTicker) THEN RawError("invalid_ticker", FALSE)
    ELSE IF yahooExchange(x) # {} THEN CHOOSE r \in yahooExchange(x) : TRUE
    ELSE IF x.body = "noSeries" THEN fetchDailyData(cleanTicker, daily)
    ELSE IF x.body = "noValidPoints" THEN RawError("no_data", FALSE)
    ELSE SuccessResult(Null)

\* The catch block of the Alpha Vantage revision; a response that is not ok
\* is thrown as an Error
alphaVantageCaught(x) ==
    IF x.net = "AbortError" THEN {RawError("timeout", FALSE)}
    ELSE IF x.net # "response" \/ x.status # 200 \/ x.body = "unparsable"
    THEN {RawError("network_error", FALSE)}
    ELSE {}

\* fetchDailyData(ticker) of the Alpha Vantage revision
alphaVantageFetchDailyData(ticker, x) ==
    IF alphaVantageCaught(x) # {} THEN CHOOSE r \in alphaVantageCaught(x) : TRUE
    ELSE IF x.body \in {"Note", "Information"} THEN rateLimitError
    ELSE IF x.body = "ErrorMessage" THEN RawError("invalid_ticker", FALSE)
    ELSE IF x.body = "noSeries" THEN RawError("no_data", FALSE)
    ELSE SuccessResult(Null)

\* fetchMarketData(ticker) of the Alpha Vantage revision
alphaVantageFetchMarketData(apiKeyValid, ticker, x, daily) ==
    LET cleanTicker == normalizeTicker(ticker) IN
    IF ~apiKeyValid THEN RawError("config_error", FALSE)
    ELSE IF ~matchesSymbol(cleanTicker) THEN RawError("invalid_ticker", FALSE)
    ELSE IF alphaVantageCaught(x) # {} THEN CHOOSE r \in alphaVantageCaught(x) : TRUE
    ELSE IF x.body = "ErrorMessage" THEN RawError("invalid_ticker", FALSE)
    ELSE IF x.body \in {"Note", "Information"} THEN rateLimitError
    ELSE IF x.body = "noSeries" THEN alphaVantageFetchDailyData(cleanTicker, daily)
    ELSE SuccessResult(Null)

---------------------------------------------------------------------------
(* MarketDataClient: fetch *)

tracksDiagnostics(v) == v # "A"

\* executeRequest(ticker) up to its await: one call of the raw collaborator
executeRequest(w, ticker, via, cb) ==
    LET d == w.ids.disp + 1 IN
    [w EXCEPT
        !.ids.disp = d,
        !.dispatches = @ \cup {[id |-> d, key |-> ticker, via |-> via, cb |-> cb]},
        !.diag.lastRequest =
            IF tracksDiagnostics(w.ver)
            THEN {[ticker |-> ticker, timestamp |-> w.now]} ELSE @,
        !.ev.disp = d, !.ev.via = via]

\* "Create new request" and "Store in-flight promise", then `await promise`.
\* `startNow` is the `now` the call read when it was entered.
startRequest(w, call, key, startNow, origin) ==
    LET w1 == executeRequest(w, key, "fetch", NoCallback) IN
    [w1 EXCEPT
        !.requestStates = MapSet(@, key,
            [lastRequestTime |-> startNow, inFlightPromise |-> w1.ids.disp]),
        !.calls = @ \cup {[id |-> call, key |-> key, origin |-> origin,
                           pc |-> "awaiting", startNow |-> startNow,
                           due |-> Null, disp |-> w1.ids.disp]},
        !.lastDispatchAt = MapSet(@, key, w.now),
        !.ev.path = "dispatch"]

\* A freshness test that still serves an entry of exactly CACHE_TTL_MS: the
\* variant that shows what the strict comparison is needed for
cacheIsFreshInclusive(w, key) ==
    key \in DOMAIN w.cache /\ w.now - w.cache[key].timestamp <= CACHE_TTL_MS

\* cached && now - cached.timestamp < CACHE_TTL_MS
cacheIsFresh(w, key) ==
    key \in DOMAIN w.cache /\ w.now - w.cache[key].timestamp < CACHE_TTL_MS

\* A cache hit that is counted as a miss too: the variant that shows what
\* counting the hit alone is needed for
cacheHitCountedAsMiss(w) ==
    IF tracksDiagnostics(w.ver)
    THEN [w EXCEPT !.diag.cacheHits = @ + 1, !.diag.cacheMisses = @ + 1]
    ELSE w

\* this.cacheHits++
cacheHitCounted(w) ==
    IF tracksDiagnostics(w.ver)
    THEN [w EXCEPT !.diag.cacheHits = @ + 1]
    ELSE w

\* A spacing test that never holds a request back: the variant that shows
\* what the minimum request interval is needed for
spacingNeverEnforced(w, requestState) == FALSE

\* now - requestState.lastRequestTime < MIN_REQUEST_INTERVAL_MS
spacingEnforced(w, requestState) ==
    w.now - requestState.lastRequestTime < MIN_REQUEST_INTERVAL_MS

\* fetch(ticker) up to its first suspension point or return
fetch(w0, ticker, origin) ==
    LET normalizedTicker == normalizeTicker(ticker)
        call == w0.ids.call + 1
        w == [w0 EXCEPT !.ids.call = call, !.ev.key = normalizedTicker]
        hasCached == normalizedTicker \in DOMAIN w.cache
        cached == w.cache[normalizedTicker]
        hasState == normalizedTicker \in DOMAIN w.requestStates
        requestState == w.requestStates[normalizedTicker]
        miss == IF tracksDiagnostics(w.ver)
                THEN [w EXCEPT !.diag.cacheMisses = @ + 1] ELSE w
    IN
    IF cacheIsFresh(w, normalizedTicker)
    THEN deliver([cacheHitCounted(w) EXCEPT !.ev.path = "hit"],
                 call, origin, FALSE, cached.result)
    ELSE IF hasState /\ requestState.inFlightPromise # Null
    THEN [miss EXCEPT
            !.calls = @ \cup {[id |-> call, key |-> normalizedTicker,
                               origin |-> origin, pc |-> "joined",
                               startNow |-> w.now, due |-> Null,
                               disp |-> requestState.inFlightPromise]},
            !.ev.path = "join", !.ev.disp = requestState.inFlightPromise]
    ELSE IF hasState /\ spacingEnforced(w, requestState)
    THEN IF hasCached
         THEN deliver([miss EXCEPT !.ev.path = "stale"], call, origin, FALSE,
                      cached.result)
         ELSE [miss EXCEPT
                 !.calls = @ \cup {[id |-> call, key |-> normalizedTicker,
                                    origin |-> origin, pc |-> "spacing",
                                    startNow |-> w.now,
                                    due |-> w.now + (MIN_REQUEST_INTERVAL_MS -
                                              (w.now - requestState.lastRequestTime)),
                                    disp |-> Null]},
                 !.ev.path = "wait"]
    ELSE startRequest(miss, call, normalizedTicker, w.now, origin)

\* fetch resumed after the spacing wait
resumeFetch(w, c) ==
    startRequest([w EXCEPT !.calls = @ \ {c}, !.ev.key = c.key],
                 c.id, c.key, c.startNow, c.origin)

\* A settle that leaves the in-flight promise in place: the variant that shows
\* what clearing it is needed for
clearInFlightSkipped(w, key) == w

\* "Clear in-flight" / "Clear in-flight on error"
clearInFlight(w, key) ==
    IF key \in DOMAIN w.requestStates
    THEN [w EXCEPT !.requestStates[key].inFlightPromise = Null]
    ELSE w

\* fetch after `await promise`: classify the outcome; the world afterwards and
\* the value fetch returns
classify(w, key, result) ==
    IF isErrorResult(result) /\ result.isRateLimited
    THEN handleRateLimit(w, key, result)
    ELSE IF ~isErrorResult(result)
    THEN [w |-> clearRetryState(
                  [w EXCEPT !.cache = MapSet(@, key,
                               [result |-> result, timestamp |-> w.now])], key),
          result |-> result]
    ELSE [w |-> w, result |-> result]

\* The body of the retry timer of revision B after `await executeRequest`
classifyRetry(w, key, result) ==
    IF isErrorResult(result) /\ result.isRateLimited
    THEN handleRateLimit(w, key, result)
    ELSE IF isErrorResult(result)
    THEN [w |-> clearRetryState(w, key), result |-> result]
    ELSE [w |-> clearRetryState(
                  [w EXCEPT !.cache = MapSet(@, key,
                               [result |-> result, timestamp |-> w.now])], key),
          result |-> result]

\* The callers that joined the in-flight promise resume, in the order they joined
RECURSIVE deliverJoined(_, _, _)
deliverJoined(w, joined, result) ==
    IF joined = {} THEN w
    ELSE LET c == CHOOSE x \in joined : \A y \in joined : x.id <= y.id
         IN  deliverJoined(deliver(w, c.id, c.origin, TRUE, result),
                           joined \ {c}, result)

\* A revision whose handleRateLimit is async hands fetch's caller a promise
\* that settles after the joined callers have resumed.
ownerResumesLast(v, result) ==
    v \in {"A", "B"} /\ isErrorResult(result) /\ result.isRateLimited

\* The raw collaborator's promise settles
settle(w0, d, outcome) ==
    LET result == RawResult(outcome, d.id)
        w == [w0 EXCEPT
                !.dispatches = @ \ {d},
                !.diag.lastResponse =
                    IF tracksDiagnostics(w0.ver)
                    THEN {[status |-> outcome, timestamp |-> w0.now]} ELSE @,
                !.ev.key = d.key, !.ev.disp = d.id, !.ev.via = d.via,
                !.ev.outcome = outcome,
                !.ev.prior =
                    IF d.key \in DOMAIN w0.retryStates
                    THEN {[attemptCount |-> w0.retryStates[d.key].attemptCount,
                           armed |-> \E t \in w0.timers :
                                       t.id = w0.retryStates[d.key].timeoutId]}
                    ELSE {}]
    IN
    IF d.via = "retry"
    THEN LET r == classifyRetry(w, d.key, result)
         IN  invokeCallback(r.w, d.cb, r.result)
    ELSE LET owner == CHOOSE c \in w.calls : c.pc = "awaiting" /\ c.disp = d.id
             joined == {c \in w.calls : c.pc = "joined" /\ c.disp = d.id}
             r == classify(clearInFlight(w, d.key), d.key, result)
             w1 == [r.w EXCEPT !.calls = @ \ ({owner} \cup joined)]
         IN  IF ownerResumesLast(w.ver, result)
             THEN deliver(deliverJoined(w1, joined, result),
                          owner.id, owner.origin, FALSE, r.result)
             ELSE deliverJoined(
                      deliver(w1, owner.id, owner.origin, FALSE, r.result),
                      joined, result)

\* What a caller sees when `await promise` throws
Thrown(d) ==
    [ok |-> FALSE, errorCode |-> "thrown", isRateLimited |-> FALSE,
     error |-> "thrown", disp |-> d]

\* A caller of fetch resumes with the exception.  None of them catches it: a
\* retry timer of revisions A and C never reaches callback(result), and
\* fetchData stops at its await.
RECURSIVE deliverThrown(_, _, _)
deliverThrown(w, callers, d) ==
    IF callers = {} THEN w
    ELSE LET c == CHOOSE x \in callers : \A y \in callers : x.id <= y.id
         IN  deliverThrown(
                 [w EXCEPT !.ev.returns =
                     @ \cup {[call |-> c.id, origin |-> c.origin.kind,
                              joined |-> (c.pc = "joined"), result |-> Thrown(d)]}],
                 callers \ {c}, d)

\* The raw collaborator's promise rejects: the catch block of fetch, or the
\* catch block of the retry timer of revision B
reject(w0, d) ==
    LET w == [w0 EXCEPT
                !.dispatches = @ \ {d},
                !.ev.key = d.key, !.ev.disp = d.id, !.ev.via = d.via,
                !.ev.outcome = "throws",
                !.ev.prior =
                    IF d.key \in DOMAIN w0.retryStates
                    THEN {[attemptCount |-> w0.retryStates[d.key].attemptCount,
                           armed |-> \E t \in w0.timers :
                                       t.id = w0.retryStates[d.key].timeoutId]}
                    ELSE {}]
    IN
    IF d.via = "retry"
    THEN clearRetryState(w, d.key)
    ELSE LET callers == {c \in w.calls :
                            c.pc \in {"awaiting", "joined"} /\ c.disp = d.id}
         IN  deliverThrown([clearInFlight(w, d.key) EXCEPT !.calls = @ \ callers],
                           callers, d.id)

\* The retry timer fires
retryTimerFires(w0, t) ==
    LET w == [w0 EXCEPT !.timers = @ \ {t}, !.ev.key = t.ticker] IN
    IF w.ver = "B"
    THEN executeRequest(w, t.ticker, "retry", t.cb)
    ELSE fetch(w, t.ticker, TimerOrigin(t.cb))

\* clearAll() (revisions A and B)
RECURSIVE clearRetryStates(_, _)
clearRetryStates(w, keys) ==
    IF keys = {} THEN w
    ELSE LET k == CHOOSE x \in keys : TRUE
         IN  clearRetryStates(clearRetryState(w, k), keys \ {k})

clearAll(w) ==
    LET w1 == clearRetryStates(
                 [w EXCEPT !.cache = EmptyMap, !.requestStates = EmptyMap],
                 DOMAIN w.retryStates)
    IN  IF w.ver = "B"
        THEN [w1 EXCEPT !.diag.cacheHits = 0, !.diag.cacheMisses = 0]
        ELSE w1


\* Math.round(ms / 1000)
RoundSeconds(ms) == (ms + 500) \div 1000

\* getDiagnostics() (revisions B and C)
getDiagnostics(w) ==
    [lastRequest |-> w.diag.lastRequest,
     lastResponse |-> w.diag.lastResponse,
     entries |-> Cardinality(DOMAIN w.cache),
     hits |-> w.diag.cacheHits,
     misses |-> w.diag.cacheMisses,
     cacheEntries |->
        {[ticker |-> k,
          age |-> RoundSeconds(w.now - w.cache[k].timestamp),
          ttlRemaining |->
             IF w.ver = "C"
             THEN Max(0, RoundSeconds(CACHE_TTL_MS - (w.now - w.cache[k].timestamp)))
             ELSE RoundSeconds(CACHE_TTL_MS - (w.now - w.cache[k].timestamp))]
         : k \in DOMAIN w.cache},
     retryHistory |->
        {[ticker |-> k,
          attemptCount |-> w.retryStates[k].attemptCount,
          nextRetryTime |-> w.retryStates[k].nextRetryTime,
          backoffDelay |->
             IF w.retryStates[k].nextRetryTime # Null
             THEN {RoundSeconds(w.retryStates[k].nextRetryTime - w.now)} ELSE {}]
         : k \in DOMAIN w.retryStates}]

\* A getDiagnostics that counts itself as a cache miss: the variant that shows
\* what reading without writing is needed for
callGetDiagnosticsCountingMiss(w) ==
    [w EXCEPT !.ev.read = {getDiagnostics(w)}, !.diag.cacheMisses = @ + 1]

\* A call of getDiagnostics(): the snapshot goes to the caller
callGetDiagnostics(w) ==
    [w EXCEPT !.ev.read = {getDiagnostics(w)}]

---------------------------------------------------------------------------
(* The coordinator and its callers *)

Fresh ==
    /\ now = 0
    /\ cache = EmptyMap
    /\ requestStates = EmptyMap
    /\ retryStates = EmptyMap
    /\ timers = {}
    /\ calls = {}
    /\ dispatches = {}
    /\ diag = [cacheHits |-> 0, cacheMisses |-> 0, lastRequest |-> {},
               lastResponse |-> {}]
    /\ ids = [call |-> 0, disp |-> 0, timer |-> 0]
    /\ hook = IdleState
    /\ lastDispatchAt = EmptyMap
    /\ ev = NoEvent("init")

Init ==
    /\ ver \in Versions
    /\ hookVer = "Y"
    /\ lim = [calls |-> MaxCalls, timers |-> MaxTimers, time |-> MaxTime]
    /\ Fresh

Start(op) == [World EXCEPT !.ev = NoEvent(op)]

\* A caller other than the hook calls fetch(ticker)
Fetch ==
    \E t \in Tickers :
        /\ ids.call < lim.calls
        /\ Becomes(fetch(Start("fetch"), t, UserOrigin))

\* The spacing wait of a suspended fetch ends
ResumeFetch ==
    \E c \in calls :
        /\ c.pc = "spacing"
        /\ c.due <= now
        /\ Becomes(resumeFetch(Start("resume"), c))

\* The raw collaborator answers a dispatch
Settle ==
    \E d \in dispatches : \E outcome \in OutcomesFor(d.key) :
        Becomes(settle(Start("settle"), d, outcome))

\* A caller other than the hook calls scheduleRetry(ticker, callback)
ScheduleRetry ==
    \E t \in Tickers :
        /\ ids.timer < lim.timers
        /\ Becomes(scheduleRetry(
                [Start("scheduleRetry") EXCEPT
                    !.ev.key = t,
                    !.ev.prior =
                        LET k == normalizeTicker(t) IN
                        IF k \in DOMAIN retryStates
                        THEN {[attemptCount |-> retryStates[k].attemptCount,
                               armed |-> \E x \in timers :
                                           x.id = retryStates[k].timeoutId]}
                        ELSE {}],
                t, EnvCallback))

RetryTimerFires ==
    \E t \in timers :
        /\ t.due <= now
        /\ Becomes(retryTimerFires(Start("timer"), t))

GetRetryState ==
    \E t \in Tickers :
        /\ ev.op # "getRetryState"
        /\ Becomes([Start("getRetryState") EXCEPT
                       !.ev.key = t, !.ev.read = getRetryState(World, t)])

GetDiagnostics ==
    /\ ver # "A"
    /\ ev.op # "getDiagnostics"
    /\ Becomes(callGetDiagnostics(Start("getDiagnostics")))

ClearAll ==
    /\ ver # "C"
    /\ ev.op # "clearAll"
    /\ Becomes(clearAll(Start("clearAll")))

\* Every armed timeout: time does not pass one that is due
Deadlines ==
    {t.due : t \in timers}
    \cup {c.due : c \in {x \in calls : x.pc = "spacing"}}
    \cup {i.tickAt : i \in {x \in hook.cooldownIntervalRef : x.tickAt <= now}}

\* The instants at which a comparison the code makes against Date.now()
\* changes its outcome
Thresholds ==
    {t.due : t \in timers}
    \cup {c.due : c \in {x \in calls : x.pc = "spacing"}}
    \cup {cache[k].timestamp + CACHE_TTL_MS : k \in DOMAIN cache}
    \cup {requestStates[k].lastRequestTime + MIN_REQUEST_INTERVAL_MS :
             k \in DOMAIN requestStates}
    \cup {retryStates[k].nextRetryTime : k \in DOMAIN retryStates}
    \cup {t + MAX_TOTAL_RETRY_DURATION_MS + Quantum : t \in hook.retryStartTimeRef}

Later == {x \in Thresholds : x > now}
NextThreshold == CHOOSE x \in Later : \A y \in Later : x <= y

\* Time passes: up to the next threshold, or to the instant Quantum before
\* it (one instant stands for the instants between two thresholds).  The
\* cooldown interval runs at each of its seconds on the way.
TickTo(t, path) ==
    /\ t <= lim.time
    /\ \A x \in Deadlines : t <= x
    /\ Becomes([runInterval([Start("tick") EXCEPT !.ev.path = path], t)
                   EXCEPT !.now = t])

Tick ==
    /\ Later # {}
    /\ \/ TickTo(NextThreshold, "threshold")
       \/ /\ NextThreshold - Quantum > now
          /\ TickTo(NextThreshold - Quantum, "before")

Next ==
    \/ Fetch
    \/ ResumeFetch
    \/ Settle
    \/ ScheduleRetry
    \/ RetryTimerFires
    \/ Tick

Spec == Init /\ [][Next]_vars

\* The same callers, which also read the coordinator and end the session
SessionInit ==
    /\ ver \in Versions
    /\ hookVer = "Y"
    /\ lim = [calls |-> SessionMaxCalls, timers |-> SessionMaxTimers,
              time |-> MaxTime]
    /\ Fresh

SessionNext ==
    \/ Fetch
    \/ ResumeFetch
    \/ Settle
    \/ ScheduleRetry
    \/ RetryTimerFires
    \/ Tick
    \/ GetRetryState
    \/ GetDiagnostics
    \/ ClearAll

SessionSpec == SessionInit /\ [][SessionNext]_vars

\* Few fetch calls, with retries scheduled again and again
RetryInit ==
    /\ ver \in Versions
    /\ hookVer = "Y"
    /\ lim = [calls |-> RetryMaxCalls, timers |-> RetryMaxTimers,
              time |-> RetryMaxTime]
    /\ Fresh

RetrySpec == RetryInit /\ [][Next]_vars

\* The raw collaborator may also throw
Reject ==
    \E d \in dispatches :
        Becomes(reject(Start("reject"), d))

FaultInit ==
    /\ ver \in Versions
    /\ hookVer = "Y"
    /\ lim = [calls |-> FaultMaxCalls, timers |-> FaultMaxTimers,
              time |-> FaultMaxTime]
    /\ Fresh

FaultNext ==
    \/ Next
    \/ Reject

FaultSpec == FaultInit /\ [][FaultNext]_vars

\* A caller calls fetch with nothing but white space
FetchBlank ==
    \E t \in BlankTickers :
        /\ ids.call < lim.calls
        /\ Becomes(fetch(Start("fetch"), t, UserOrigin))

InputInit ==
    /\ ver \in Versions
    /\ hookVer = "Y"
    /\ lim = [calls |-> InputMaxCalls, timers |-> InputMaxTimers,
              time |-> InputMaxTime]
    /\ Fresh

InputNext ==
    \/ Next
    \/ FetchBlank

InputSpec == InputInit /\ [][InputNext]_vars

\* A burst of fetch calls in a short time, with no retry scheduled
BurstInit ==
    /\ ver \in Versions
    /\ hookVer = "Y"
    /\ lim = [calls |-> BurstMaxCalls, timers |-> 0, time |-> BurstMaxTime]
    /\ Fresh

BurstNext ==
    \/ Fetch
    \/ ResumeFetch
    \/ Settle
    \/ Tick

BurstSpec == BurstInit /\ [][BurstNext]_vars

\* A provider that answers every request with a rate-limit error, and callers
\* that keep asking
SettleRateLimited ==
    \E d \in dispatches :
        Becomes(settle(Start("settle"), d, "rate_limit"))

ExhaustInit ==
    /\ ver \in Versions
    /\ hookVer = "Y"
    /\ lim = [calls |-> ExhaustMaxCalls, timers |-> 0, time |-> ExhaustMaxTime]
    /\ Fresh

ExhaustNext ==
    \/ Fetch
    \/ ResumeFetch
    \/ SettleRateLimited
    \/ Tick

ExhaustSpec == ExhaustInit /\ [][ExhaustNext]_vars

\* A provider that answers every request with a rate-limit error, callers that
\* fetch, schedule retries and read the retry state and the diagnostics
CeilingMaxCalls == 4
CeilingMaxTimers == 1
CeilingMaxTime == 15000

CeilingInit ==
    /\ ver \in Versions
    /\ hookVer = "Y"
    /\ lim = [calls |-> CeilingMaxCalls, timers |-> CeilingMaxTimers,
              time |-> CeilingMaxTime]
    /\ Fresh

CeilingNext ==
    \/ Fetch
    \/ ResumeFetch
    \/ SettleRateLimited
    \/ ScheduleRetry
    \/ RetryTimerFires
    \/ Tick
    \/ GetRetryState
    \/ GetDiagnostics

CeilingSpec == CeilingInit /\ [][CeilingNext]_vars

---------------------------------------------------------------------------
(* The hook as the only caller of the coordinator *)

\* fetchData(ticker) up to `await marketDataClient.fetch(ticker)`
fetchData(w, ticker) ==
    IF trim(ticker) = <<>>
    THEN setState(w, "error", {}, {EnterTickerError}, {})
    ELSE fetch([w EXCEPT !.hook.currentTickerRef = ticker,
                         !.hook.retryStartTimeRef = {w.now},
                         !.hook.status = "loading",
                         !.hook.error = {},
                         !.hook.cooldownSecondsRemaining = {}],
               ticker, HookOrigin(ticker))

HookInit ==
    /\ ver \in Versions
    /\ hookVer \in HookVersions
    /\ lim = [calls |-> HookMaxCalls, timers |-> 0, time |-> HookMaxTime]
    /\ Fresh

\* The user asks for market data
FetchData ==
    \E t \in Tickers :
        /\ ids.call < lim.calls
        /\ Becomes(fetchData([Start("fetchData") EXCEPT !.ev.key = t], t))

CooldownTick ==
    \E i \in hook.cooldownIntervalRef :
        /\ i.tickAt <= now
        /\ Becomes(cooldownTick(Start("cooldownTick"), i))

HookNext ==
    \/ FetchData
    \/ ResumeFetch
    \/ Settle
    \/ RetryTimerFires
    \/ CooldownTick
    \/ Tick

HookSpec == HookInit /\ [][HookNext]_vars

\* The hook as the only caller of a provider that answers every request with
\* a rate-limit error
HookExhaustMaxCalls == 4
HookExhaustMaxTime == 10000

HookExhaustInit ==
    /\ ver \in Versions
    /\ hookVer \in HookVersions
    /\ lim = [calls |-> HookExhaustMaxCalls, timers |-> 0,
              time |-> HookExhaustMaxTime]
    /\ Fresh

HookExhaustNext ==
    \/ FetchData
    \/ ResumeFetch
    \/ SettleRateLimited
    \/ RetryTimerFires
    \/ CooldownTick
    \/ Tick

HookExhaustSpec == HookExhaustInit /\ [][HookExhaustNext]_vars

---------------------------------------------------------------------------
(* The raw collaborator called on its own *)

RawInit ==
    /\ ver = "C"
    /\ hookVer = "Y"
    /\ lim = [calls |-> RawMaxCalls, timers |-> 0, time |-> 0]
    /\ Fresh

\* What the caller of the raw collaborator gets back
rawReturn(w, ticker, exchanges, result) ==
    [w EXCEPT !.ids.call = @ + 1,
              !.ev.key = ticker,
              !.ev.read = {exchanges},
              !.ev.returns = {[call |-> w.ids.call + 1, origin |-> "user",
                               joined |-> FALSE, result |-> result]}]

\* The exchanges of the fallback: there is one only when the first exchange
\* brought a body without a series
DailyExchanges(x, bodies) ==
    IF x.net = "response" /\ x.status = 200 /\ x.body = "noSeries"
    THEN [net : RawNet, status : RawStatus, body : bodies]
    ELSE {[net |-> "none", status |-> 0, body |-> "none"]}

FetchMarketData ==
    /\ ids.call < lim.calls
    /\ \E t \in RawTickers :
       \E x \in [net : RawNet, status : RawStatus, body : YahooBodies] :
       \E daily \in DailyExchanges(x, YahooBodies) :
          Becomes(rawReturn(Start("fetchMarketData"), t,
                             [first |-> x, daily |-> daily],
                             fetchMarketData(t, x, daily)))

AlphaVantageFetchMarketData ==
    /\ ids.call < lim.calls
    /\ \E apiKeyValid \in BOOLEAN :
       \E t \in RawTickers :
       \E x \in [net : RawNet, status : RawStatus, body : AlphaVantageBodies] :
       \E daily \in DailyExchanges(x, AlphaVantageBodies) :
          Becomes(rawReturn(Start("alphaVantageFetchMarketData"), t,
                             [first |-> x, daily |-> daily, apiKeyValid |-> apiKeyValid],
                             alphaVantageFetchMarketData(apiKeyValid, t, x, daily)))

RawNext ==
    \/ FetchMarketData
    \/ AlphaVantageFetchMarketData

RawSpec == RawInit /\ [][RawNext]_vars

---------------------------------------------------------------------------
(* The policy functions called on their own *)

PolicyTickers ==
    UNION {[1..n -> {"a", "A", "b", " "}] : n \in 0..MaxTickerLen}

PolicyInit ==
    /\ ver = "C"
    /\ hookVer = "Y"
    /\ lim = [calls |-> PolicyMaxCalls, timers |-> 0, time |-> 0]
    /\ Fresh

\* calculateBackoffDelay(n), and calculateBackoffDelay(n + 1) next to it
CalculateBackoffDelay ==
    /\ ids.call < lim.calls
    /\ \E n \in 1..MaxAttemptNumber :
          Becomes([Start("calculateBackoffDelay") EXCEPT
                      !.ids.call = @ + 1,
                      !.ev.read = {[attemptNumber |-> n,
                                    delay |-> calculateBackoffDelay(n),
                                    following |-> calculateBackoffDelay(n + 1)]}])

\* normalizeTicker(ticker), and normalizeTicker of what it returned
NormalizeTicker ==
    /\ ids.call < lim.calls
    /\ \E t \in PolicyTickers :
          Becomes([Start("normalizeTicker") EXCEPT
                      !.ids.call = @ + 1,
                      !.ev.key = t,
                      !.ev.read = {[normalized |-> normalizeTicker(t),
                                    again |-> normalizeTicker(normalizeTicker(t))]}])

PolicyNext ==
    \/ CalculateBackoffDelay
    \/ NormalizeTicker

PolicySpec == PolicyInit /\ [][PolicyNext]_vars

---------------------------------------------------------------------------
(* Properties *)

\* The dispatches of key k that have not settled
Outstanding(k) == {d \in dispatches : d.key = k}

\* This step is a call of fetch for key k (by a caller, the hook or a retry timer)
FetchCalled(k) ==
    /\ ev'.op \in {"fetch", "fetchData", "timer"}
    /\ ev'.path \in {"hit", "join", "stale", "wait", "dispatch"}
    /\ ev'.key = k

\* C1: in every reachable state, every key has at most one raw-fetch dispatch
\* outstanding.
C1_OneOutstandingDispatchPerKey ==
    \A d1 \in dispatches : \A d2 \in dispatches :
        d1.key = d2.key => d1.id = d2.id

\* C2: a fetch called for a key that has no fresh cache entry, while a
\* dispatch made by an earlier fetch for that key has not settled, starts no
\* new dispatch.
C2_SecondFetchStartsNoDispatch ==
    [][\A k \in {ev'.key} :
          (/\ FetchCalled(k)
           /\ ~(k \in DOMAIN cache /\ now - cache[k].timestamp < CACHE_TTL_MS)
           /\ \E d \in dispatches : d.key = k /\ d.via = "fetch")
          => /\ dispatches' = dispatches
             /\ ids'.disp = ids.disp]_vars

\* C3: a dispatch that fetch makes for a key comes at least
\* MIN_REQUEST_INTERVAL_MS after the previous dispatch fetch made for that
\* key; stated for a dispatch made while no other dispatch of the key is
\* outstanding.
C3_DispatchesSpaced ==
    [][(/\ ev'.path = "dispatch"
        /\ ev'.key \in DOMAIN lastDispatchAt
        /\ Outstanding(ev'.key) = {})
       => now' - lastDispatchAt[ev'.key] >= MIN_REQUEST_INTERVAL_MS]_vars

\* C4: a fetch for a key whose cache entry is younger than CACHE_TTL_MS
\* returns the stored result and dispatches nothing; a fetch for a key whose
\* entry is CACHE_TTL_MS old or older, with no request of the key in flight
\* and the spacing interval elapsed, makes a new dispatch.
C4_CacheTTL ==
    [][\A k \in DOMAIN cache :
          FetchCalled(k) =>
            IF now - cache[k].timestamp < CACHE_TTL_MS
            THEN /\ ev'.path = "hit"
                 /\ dispatches' = dispatches
                 /\ ids'.disp = ids.disp
                 /\ \E r \in ev'.returns :
                        r.call = ids'.call /\ r.result = cache[k].result
            ELSE (/\ Outstanding(k) = {}
                  /\ \/ k \notin DOMAIN lastDispatchAt
                     \/ now - lastDispatchAt[k] >= MIN_REQUEST_INTERVAL_MS)
                 => /\ ev'.path = "dispatch"
                    /\ \E d \in dispatches' \ dispatches :
                           d.key = k /\ d.via = "fetch"]_vars

\* A fetch has just dispatched for a key whose cache entry had expired, after
\* an earlier fetch was served from the cache
C4_Witness ==
    /\ ev.op = "fetch"
    /\ ev.path = "dispatch"
    /\ ev.key \in DOMAIN cache
    /\ now - cache[ev.key].timestamp >= CACHE_TTL_MS
    /\ diag.cacheHits >= 1

\* The delays the documentation gives for the 1st, 2nd and 3rd attempt
documentedBackoffDelay(attemptNumber) ==
    CASE attemptNumber = 1 -> 10000
      [] attemptNumber = 2 -> 30000
      [] OTHER -> 60000

\* C5: after the 1st, 2nd and 3rd consecutive rate-limit result of a key its
\* nextRetryTime is now + 10 s, now + 30 s and now + 60 s.
C5_DocumentedBackoff ==
    (/\ ev.op = "settle"
     /\ ev.outcome = "rate_limit"
     /\ ev.key \in DOMAIN retryStates)
    => retryStates[ev.key].nextRetryTime =
           now + documentedBackoffDelay(retryStates[ev.key].attemptCount)

\* C6: when a rate-limit result of a dispatch made by fetch brings the key's
\* attemptCount above MAX_RETRIES, the RetryState is deleted and fetch returns
\* an error marked retries-exhausted with isRateLimited = false.
C6_ExhaustedIsNotRateLimited ==
    (/\ ev.op = "settle"
     /\ ev.outcome = "rate_limit"
     /\ ev.via = "fetch"
     /\ \E p \in ev.prior : p.attemptCount >= MAX_RETRIES)
    => /\ ev.key \notin DOMAIN retryStates
       /\ \A r \in ev.returns :
             ~r.joined => /\ r.result.error = "exhausted"
                          /\ ~r.result.isRateLimited

\* C7: the hook does not stay in status cooldown forever: while it is in
\* cooldown an automatic retry is armed or running, which is what ends the
\* cooldown.  Stated for a ticker that was entered in its normalized form.
C7_CooldownHasRetryPending ==
    (/\ hook.status = "cooldown"
     /\ hook.currentTickerRef = normalizeTicker(hook.currentTickerRef)) =>
        \/ \E t \in timers : t.cb.kind = "hook"
        \/ dispatches # {}
        \/ calls # {}

\* C8: when a dispatch made by fetch settles with an error that is not a rate
\* limit, the key has no RetryState afterwards, the error is returned and the
\* cache is not written.
C8_OtherErrorResetsRetryState ==
    [][(/\ ev'.op = "settle"
        /\ ev'.outcome = "network_error"
        /\ ev'.via = "fetch")
       => /\ ev'.key \notin DOMAIN retryStates'
          /\ cache' = cache
          /\ \A r \in ev'.returns :
                r.result = RawResult("network_error", ev'.disp)]_vars

\* C9: when a dispatch of a key settles with success the key's RetryState is
\* deleted and no retry timer of the key stays armed; a rate-limit result for
\* a key without RetryState yields attemptCount = 1.
C9_SuccessResetsRetryState ==
    [][/\ (ev'.op = "settle" /\ ev'.outcome = "success")
          => /\ ev'.key \notin DOMAIN retryStates'
             /\ \A t \in timers' : t.ticker # ev'.key
       /\ (/\ ev'.op = "settle"
           /\ ev'.outcome = "rate_limit"
           /\ ev'.key \notin DOMAIN retryStates)
          => /\ ev'.key \in DOMAIN retryStates'
             /\ retryStates'[ev'.key].attemptCount = 1]_vars

\* A success has just settled for a key that was at attempt 2 or 3 with its
\* retry timer armed
C9_Witness ==
    /\ ev.op = "settle"
    /\ ev.outcome = "success"
    /\ \E p \in ev.prior : p.attemptCount >= 2 /\ p.armed
    /\ ev.key \notin DOMAIN retryStates
    /\ \A t \in timers : t.ticker # ev.key

\* C10: a rate-limit result of a dispatch changes the key's attemptCount by
\* exactly +1 (from 0 when there was no RetryState), whoever joined the
\* dispatch; no other step changes the attemptCount of a RetryState that
\* exists before and after it.
C10_AttemptCountStepsByOne ==
    [][\A k \in DOMAIN retryStates \cup DOMAIN retryStates' \cup {ev'.key} :
          LET before == IF k \in DOMAIN retryStates
                        THEN retryStates[k].attemptCount ELSE 0
          IN  IF ev'.op = "settle" /\ ev'.outcome = "rate_limit" /\ ev'.key = k
              THEN IF k \in DOMAIN retryStates'
                   THEN retryStates'[k].attemptCount = before + 1
                   ELSE before + 1 > MAX_RETRIES
              ELSE k \in DOMAIN retryStates' =>
                       /\ k \in DOMAIN retryStates
                       /\ retryStates'[k].attemptCount = before]_vars

\* A rate-limit result has just settled a dispatch that another caller had
\* joined, and took the key from attempt 1 to attempt 2
C10_Witness ==
    /\ ev.op = "settle"
    /\ ev.outcome = "rate_limit"
    /\ \E r \in ev.returns : r.joined
    /\ \E p \in ev.prior : p.attemptCount = 1
    /\ ev.key \in DOMAIN retryStates
    /\ retryStates[ev.key].attemptCount = 2

\* C11: scheduleRetry called with any spelling of a ticker arms the retry
\* timer whenever a RetryState with a nextRetryTime exists for the normalized
\* key.
C11_ScheduleRetryNormalizes ==
    [][\A k \in {normalizeTicker(ev'.key)} :
          (/\ ev'.op = "scheduleRetry"
           /\ k \in DOMAIN retryStates
           /\ retryStates[k].nextRetryTime # Null)
          => /\ \E t \in timers' \ timers : t.ticker = k
             /\ retryStates'[k].timeoutId = ids'.timer]_vars

\* C12: when a caller's fetch starts a new request for a key, no retry timer
\* of that key is armed afterwards (the fetch has cancelled it).
C12_FetchCancelsRetryTimer ==
    [][(/\ ev'.op = "fetch"
        /\ ev'.path = "dispatch")
       => \A t \in timers' : normalizeTicker(t.ticker) # ev'.key]_vars

\* C13: in every reachable state each key has at most one armed retry timer.
C13_OneTimerPerKey ==
    \A t1 \in timers : \A t2 \in timers :
        normalizeTicker(t1.ticker) = normalizeTicker(t2.ticker) => t1.id = t2.id

\* scheduleRetry has just been called for a key whose timer was armed, and a
\* timer is armed for the key now
C13_Witness ==
    /\ ev.op = "scheduleRetry"
    /\ \E p \in ev.prior : p.armed
    /\ \E t \in timers : t.ticker = normalizeTicker(ev.key) /\ t.id = ids.timer
    /\ ids.timer >= 2

\* C14: a retry timer that fires performs one retry dispatch of its own: the
\* step calls the raw collaborator, or suspends in the spacing wait to call it
\* afterwards; the retry is not answered from the cache or from another
\* caller's request.
C14_TimerFiringDispatches ==
    [][ev'.op = "timer"
       => \/ /\ ids'.disp = ids.disp + 1
             /\ \E d \in dispatches' \ dispatches : d.id = ids'.disp
          \/ ev'.path = "wait"]_vars

\* C15: scheduleRetry arms no timer and changes nothing when the key has no
\* RetryState, when its nextRetryTime is unset or when its attemptCount is
\* above MAX_RETRIES.  A RetryState that exists between two steps always has
\* its nextRetryTime set and an attemptCount of at most MAX_RETRIES.
C15_ScheduleRetryNoOp ==
    [][/\ \A k \in DOMAIN retryStates :
             /\ retryStates[k].nextRetryTime # Null
             /\ retryStates[k].attemptCount <= MAX_RETRIES
       /\ \A k \in {normalizeTicker(ev'.key)} :
             (/\ ev'.op = "scheduleRetry"
              /\ \/ k \notin DOMAIN retryStates
                 \/ retryStates[k].nextRetryTime = Null
                 \/ retryStates[k].attemptCount > MAX_RETRIES)
             => UNCHANGED <<cache, requestStates, retryStates, timers, calls,
                            dispatches, diag, ids, hook, now>>]_vars

\* scheduleRetry has just been called for a key that has a cache entry and no
\* RetryState
C15_Witness ==
    /\ ev.op = "scheduleRetry"
    /\ ev.prior = {}
    /\ normalizeTicker(ev.key) \in DOMAIN cache
    /\ normalizeTicker(ev.key) \notin DOMAIN retryStates
    /\ ids.timer >= 1

C17_EmptyTickerRejected ==
    [][(ev'.op = "fetch" /\ ev'.key = <<>>)
       => /\ \E r \in ev'.returns : ~r.result.ok /\ r.result.errorCode = "invalid_input"
          /\ UNCHANGED <<cache, requestStates, retryStates>>]_vars

C19_ClearAllEqualsFresh ==
    [][ev'.op = "clearAll"
       => /\ DOMAIN cache' = {}
          /\ DOMAIN requestStates' = {}
          /\ DOMAIN retryStates' = {}
          /\ timers' = {}
          /\ diag'.cacheHits = 0
          /\ diag'.cacheMisses = 0
          /\ diag'.lastRequest = {}
          /\ diag'.lastResponse = {}]_vars

\* C20: clearAll leaves no cache entry, no retry entry and no armed timer, which is what getDiagnostics reports right after it; and a fetch for a key that has had no dispatch since the last clearAll starts a fresh dispatch: it is not served from the cache, joins no in-flight handle and does not wait for spacing.
C20_ClearAllComplete ==
    [][/\ ev'.op = "clearAll"
          => DOMAIN cache' = {} /\ DOMAIN retryStates' = {} /\ timers' = {}
       /\ (ev.op = "clearAll" /\ ev'.op = "getDiagnostics")
          => \A g \in ev'.read :
                g.entries = 0 /\ g.cacheEntries = {} /\ g.retryHistory = {}
       /\ (ev'.op = "fetch" /\ ev'.key \notin DOMAIN requestStates)
          => ev'.path = "dispatch"]_vars

\* C21: a call of getDiagnostics changes nothing the coordinator holds, and what it returns is read off that state: hit count, miss count, entry count, the cached keys and each key's attemptCount and nextRetryTime; two calls with no fetch, settle or timer firing between them therefore agree on all of these.
C21_DiagnosticsPure ==
    [][ev'.op = "getDiagnostics"
       => /\ UNCHANGED <<cache, requestStates, retryStates, timers, calls,
                         dispatches, diag, ids, hook, now, lastDispatchAt>>
          /\ \A g \in ev'.read :
                /\ g.hits = diag.cacheHits
                /\ g.misses = diag.cacheMisses
                /\ g.entries = Cardinality(DOMAIN cache)
                /\ {e.ticker : e \in g.cacheEntries} = DOMAIN cache
                /\ {<<e.ticker, e.attemptCount, e.nextRetryTime>> : e \in g.retryHistory}
                   = {<<k, retryStates[k].attemptCount, retryStates[k].nextRetryTime>> :
                         k \in DOMAIN retryStates}
          /\ ev'.read # {}]_vars

C21_Witness ==
    /\ ev.op = "getDiagnostics"
    /\ \E g \in ev.read :
          /\ g.entries = 1 /\ g.hits + g.misses >= 2
          /\ \E e \in g.retryHistory : e.attemptCount = 1

\* C22: while useMarketData is in status cooldown and the coordinator holds a nextRetryTime for the ticker, once every due run of the cooldown interval and every due retry timer has run the displayed cooldownSecondsRemaining is ceil((nextRetryTime - now) / 1000), and 0 once nextRetryTime has passed.
C22_CountdownFollowsNextRetryTime ==
    \A k \in {normalizeTicker(hook.currentTickerRef)} :
        (/\ hook.status = "cooldown"
         /\ k \in DOMAIN retryStates
         /\ \A i \in hook.cooldownIntervalRef : i.tickAt > now
         /\ \A t \in timers : t.due > now)
        => hook.cooldownSecondsRemaining
              = {Max(0, CeilSeconds(retryStates[k].nextRetryTime - now))}

\* C23: every cache entry holds a success result, and a cache entry is created or replaced only in the step in which a dispatch for its key settles with success.
C23_CacheHoldsSuccessOnly ==
    [][\A k \in DOMAIN cache' :
          /\ cache'[k].result.ok
          /\ (k \notin DOMAIN cache \/ cache'[k] # cache[k])
             => /\ ev'.op = "settle" /\ ev'.outcome = "success" /\ ev'.key = k
                /\ cache'[k].result.disp = ev'.disp]_vars

C23_Witness ==
    /\ ev.op = "settle" /\ ev.via = "retry" /\ ev.outcome = "success"
    /\ ev.key \in DOMAIN cache
    /\ cache[ev.key].result.disp = ev.disp
    /\ \E p \in ev.prior : p.attemptCount >= 1

\* C24: every error value that fetchMarketData returns, from its own branches or from the daily-data fallback, has isRateLimited set exactly when its errorCode is rate_limit.
C24_RateLimitFlagMatchesCode ==
    (ev.op \in {"fetchMarketData", "alphaVantageFetchMarketData"})
    => \A r \in ev.returns :
          ~r.result.ok => (r.result.isRateLimited <=> r.result.errorCode = "rate_limit")

C24_Witness ==
    /\ ev.op = "fetchMarketData"
    /\ \E x \in ev.read : x.first.body = "noSeries" /\ x.daily.status = 429
    /\ \E r \in ev.returns : r.result.isRateLimited /\ r.result.errorCode = "rate_limit"

\* C25: for every attempt number n >= 1 calculateBackoffDelay(n) is greater than 0 and at most 60 s, is not above calculateBackoffDelay(n + 1), and once it is 60 s it is 60 s for n + 1 too.
C25_BackoffPositiveMonotoneCapped ==
    ev.op = "calculateBackoffDelay"
    => \A x \in ev.read :
          /\ x.delay > 0
          /\ x.delay <= 60000
          /\ x.delay <= x.following
          /\ x.following <= 60000
          /\ x.delay = 60000 => x.following = 60000

C25_Witness ==
    /\ ev.op = "calculateBackoffDelay"
    /\ \E x \in ev.read : x.attemptNumber = 3 /\ x.delay < 60000 /\ x.following = 60000

\* The tickers x and y have the same letters up to case between their surrounding blanks
SameUpToCaseAndPadding(x, y) ==
    \E i \in 0..Len(x) : \E j \in i..Len(x) : \E k \in 0..Len(y) : \E l \in k..Len(y) :
        /\ \A p \in (1..i) \cup ((j + 1)..Len(x)) : x[p] = " "
        /\ \A p \in (1..k) \cup ((l + 1)..Len(y)) : y[p] = " "
        /\ j - i = l - k
        /\ \A p \in 1..(j - i) :
              \/ x[i + p] = y[k + p]
              \/ {x[i + p], y[k + p]} = {"a", "A"}

\* C26: normalizeTicker applied to its own result returns that result, and two tickers that differ only in letter case or in surrounding white space have the same normalized form.
C26_NormalizeIdempotent ==
    ev.op = "normalizeTicker"
    => \A x \in ev.read :
          /\ x.again = x.normalized
          /\ \A y \in PolicyTickers :
                SameUpToCaseAndPadding(ev.key, y) => normalizeTicker(y) = x.normalized

C26_Witness ==
    /\ ev.op = "normalizeTicker"
    /\ ev.key = <<" ", "a", " ">>
    /\ \E x \in ev.read : x.normalized = <<"A">> /\ x.again = <<"A">>

\* C27: a step in which fetch dispatches a raw request, at once or after its spacing wait, leaves the key's lastRequestTime equal to the clock at that step; a fetch answered from the cache, from an in-flight promise or from a stale entry leaves the key's RequestState as it was.
C27_LastRequestTimeIsDispatchTime ==
    [][/\ (ev'.op \in {"fetch", "resume", "timer"} /\ ev'.path = "dispatch")
          => /\ ev'.key \in DOMAIN requestStates'
             /\ requestStates'[ev'.key].lastRequestTime = now'
       /\ (ev'.op \in {"fetch", "timer"} /\ ev'.path \in {"hit", "join", "stale"})
          => requestStates' = requestStates]_vars

\* C28: the caller that started a dispatch and the callers that joined it all resume with the same result, with the same isRateLimited flag and the same error message, also when the result is the rate-limit error that exhausts the retries.
C28_JoinedCallersGetSameResult ==
    [][ev'.op = "settle"
       => \A r1 \in ev'.returns : \A r2 \in ev'.returns : r1.result = r2.result]_vars

\* C29: a retry timer that fires never makes its dispatch before the key's
\* current nextRetryTime: when the timer's step calls the raw collaborator and
\* the key has a RetryState, that state's nextRetryTime has been reached.
C29_TimerDispatchNotBeforeNextRetry ==
    [][(/\ ev'.op = "timer"
        /\ ids'.disp = ids.disp + 1
        /\ normalizeTicker(ev'.key) \in DOMAIN retryStates)
       => retryStates[normalizeTicker(ev'.key)].nextRetryTime <= now']_vars

\* C30: in every state each stored RetryState has an attemptCount between 1
\* and MAX_RETRIES and a nextRetryTime that is set; what getRetryState and
\* getDiagnostics have just returned shows no attemptCount above MAX_RETRIES;
\* and every armed retry timer belongs to a stored RetryState, so that none is
\* armed for a key whose retries are used up.
C30_RetryStateWithinCeiling ==
    /\ \A k \in DOMAIN retryStates :
          /\ retryStates[k].attemptCount >= 1
          /\ retryStates[k].attemptCount <= MAX_RETRIES
          /\ retryStates[k].nextRetryTime # Null
    /\ ev.op = "getRetryState"
          => \A r \in ev.read : r.attemptCount <= MAX_RETRIES
    /\ ev.op = "getDiagnostics"
          => \A d \in ev.read : \A h \in d.retryHistory :
                h.attemptCount <= MAX_RETRIES
    /\ \A t \in timers :
          /\ t.ticker \in DOMAIN retryStates
          /\ retryStates[t.ticker].attemptCount <= MAX_RETRIES

\* A rate-limit answer has just used up the retries of its key: the fourth
\* request for the key has settled and the key's RetryState is gone
C30_Witness ==
    /\ ev.op = "settle"
    /\ ev.outcome = "rate_limit"
    /\ ev.key \notin DOMAIN retryStates
    /\ ids.disp >= MAX_RETRIES + 1

\* C31: when fetch is called for a key whose last request started less than
\* MIN_REQUEST_INTERVAL_MS ago and that has no request in flight, then with a
\* cache entry of any age the caller resumes at once with the entry's result
\* and nothing is dispatched, and with no cache entry the caller is suspended
\* until the interval has passed; a caller that leaves the wait dispatches.
C31_SpacingServesCacheOrWaits ==
    [][/\ \A k \in {ev'.key} :
            (/\ ids'.call = ids.call + 1
             /\ k \in DOMAIN requestStates
             /\ requestStates[k].inFlightPromise = Null
             /\ now - requestStates[k].lastRequestTime < MIN_REQUEST_INTERVAL_MS)
            => /\ ids'.disp = ids.disp
               /\ dispatches' = dispatches
               /\ IF k \in DOMAIN cache
                  THEN /\ ev'.path \in {"hit", "stale"}
                       /\ \E r \in ev'.returns :
                             /\ r.call = ids'.call
                             /\ r.result = cache[k].result
                       /\ \A c \in calls' : c.id # ids'.call
                  ELSE /\ ev'.path = "wait"
                       /\ ev'.returns = {}
                       /\ \E c \in calls' :
                             /\ c.id = ids'.call
                             /\ c.pc = "spacing"
                             /\ c.due = requestStates[k].lastRequestTime
                                        + MIN_REQUEST_INTERVAL_MS
       /\ ev'.op = "resume"
            => /\ ids'.disp = ids.disp + 1
               /\ \E c \in calls \ calls' : c.pc = "spacing" /\ c.due <= now
               /\ \E d \in dispatches' \ dispatches : d.key = ev'.key]_vars

\* A caller has just left the spacing wait and started the second request of
\* the execution
C31_Witness ==
    /\ ev.op = "resume"
    /\ ev.path = "dispatch"
    /\ ids.disp >= 2

\* C32: a fetch that is answered from a fresh cache entry dispatches nothing
\* and leaves the cache, every RequestState and every RetryState as they
\* were; of the diagnostics only the hit counter changes, by one.
C32_CacheHitChangesOnlyHitCounter ==
    [][ev'.path = "hit"
       => /\ UNCHANGED <<cache, requestStates, retryStates, dispatches,
                         calls, lastDispatchAt>>
          /\ ids'.disp = ids.disp
          /\ diag' = [diag EXCEPT !.cacheHits = diag'.cacheHits]
          /\ diag'.cacheHits \in {diag.cacheHits, diag.cacheHits + 1}
          /\ ver # "A" => diag'.cacheHits = diag.cacheHits + 1
          /\ \E r \in ev'.returns :
                r.call = ids'.call /\ r.result = cache[ev'.key].result]_vars

\* A caller's fetch has just been answered from the cache and the hit counter
\* has counted it
C32_Witness ==
    /\ ev.op = "fetch"
    /\ ev.path = "hit"
    /\ diag.cacheHits >= 1
    /\ ev.key \in DOMAIN requestStates

\* C33: a request that was in flight when clearAll was called does not
\* repopulate the coordinator: when the first step after clearAll is the
\* settling of a dispatch or the end of a spacing wait, both begun before
\* clearAll, the cache and the retry-state map are still empty afterwards.
C33_ClearAllNotRepopulated ==
    [][(/\ ev.op = "clearAll"
        /\ ev'.op \in {"settle", "resume"})
       => /\ DOMAIN cache' = {}
          /\ DOMAIN retryStates' = {}]_vars

\* C34: when the coordinator's fetch settles for a fetchData call of the hook,
\* the hook's status is success, error or cooldown afterwards: it is not left
\* in loading, whatever the result and whatever RetryState the coordinator
\* holds at that moment.
C34_FetchDataLeavesLoading ==
    [][(\E r \in ev'.returns : r.origin = "hook")
       => hook'.status \in {"success", "error", "cooldown"}]_vars

\* C35: when a step makes the hook report that the retries are exhausted, by
\* the attempt count or by the ceiling of the total retry duration, the
\* coordinator holds no RetryState and no armed retry timer for the key of
\* the request that has just settled.
C35_ExhaustedLeavesNoRetryState ==
    [][(/\ ev'.op = "settle"
        /\ hook'.status = "error"
        /\ hook'.error # hook.error
        /\ \E e \in hook'.error : e.error = "exhausted")
       => /\ ev'.key \notin DOMAIN retryStates'
          /\ \A t \in timers' : normalizeTicker(t.ticker) # ev'.key]_vars

\* C36: in every state of the hook cooldownSecondsRemaining is set only
\* while the status is cooldown: once fetchData has moved the status on, the
\* interval of an earlier cooldown does not set it again.
C36_CountdownOnlyInCooldown ==
    hook.cooldownSecondsRemaining # {} => hook.status = "cooldown"

\* C37: a retry outcome that the coordinator delivers to the hook's callback
\* for a ticker that is no longer the hook's current ticker changes nothing
\* of the hook's status, data and error (in a step in which no fetchData
\* call resumes and no callback for the current ticker runs).
C37_StaleRetryOutcomeIgnored ==
    [][(/\ ev'.callbacks # {}
        /\ \A c \in ev'.callbacks :
              c.cb.kind = "hook" /\ c.cb.ticker # hook.currentTickerRef
        /\ \A r \in ev'.returns : r.origin # "hook")
       => /\ hook'.status = hook.status
          /\ hook'.data = hook.data
          /\ hook'.error = hook.error
          /\ hook'.currentTickerRef = hook.currentTickerRef]_vars

\* The retry of an earlier ticker has just ended with a success that was
\* handed to the hook's callback, while the hook shows the error of the
\* current ticker
C37_Witness ==
    /\ ev.op = "settle"
    /\ ev.outcome = "success"
    /\ ev.callbacks # {}
    /\ \A c \in ev.callbacks :
          c.cb.kind = "hook" /\ c.cb.ticker # hook.currentTickerRef
    /\ \A r \in ev.returns : r.origin # "hook"
    /\ hook.status = "error"

\* C38: when the coordinator hands a success result to the hook's retry
\* callback for the current ticker (and no fetchData call resumes in the same
\* step), the hook ends in status success with that result as its data and
\* no error.
C38_RetrySuccessShown ==
    [][\A c \in ev'.callbacks :
          (/\ c.cb.kind = "hook"
           /\ c.cb.ticker = hook.currentTickerRef
           /\ c.result.ok
           /\ \A r \in ev'.returns : r.origin # "hook")
          => /\ hook'.status = "success"
             /\ hook'.data = {c.result}
             /\ hook'.error = {}]_vars

\* C39: in every state of the hook, status success goes with data and no
\* error, status error and status cooldown go with an error and no data, and
\* status idle goes with neither.
C39_StatusMatchesDataAndError ==
    /\ hook.status = "success" => hook.data # {} /\ hook.error = {}
    /\ hook.status \in {"error", "cooldown"} => hook.error # {} /\ hook.data = {}
    /\ hook.status = "idle" => hook.data = {} /\ hook.error = {}

\* The hook is in cooldown for a key that an earlier request has fetched
\* with success: the data it showed then is gone
C39_Witness ==
    /\ hook.status = "cooldown"
    /\ hook.error # {}
    /\ hook.data = {}
    /\ normalizeTicker(hook.currentTickerRef) \in DOMAIN cache

====
